---- MODULE Spec2Model ----
(***************************************************************************)
(* Model of the benchmark-datetime test session: the library tables built  *)
(* when the test modules are imported, and the parametrized cases, each of *)
(* which invokes every callable of a table, asserts that the projected     *)
(* results agree and then hands one library's callable to `benchmark`.     *)
(*                                                                         *)
(* The date/time libraries are external; their callables are modelled by   *)
(* what they compute on a proleptic Gregorian calendar: an instant is a    *)
(* wall-clock reading (day number since 1970-01-01, second of the day,     *)
(* microsecond) with the UTC offset of that reading in minutes.            *)
(***************************************************************************)
EXTENDS Integers, Sequences, FiniteSets, TLC

VARIABLES
    phase,      \* "load" while the test modules are imported, then "run"
    display,    \* the statements under execution
    lstep,      \* index of the next statement of `display` to execute
    clock,      \* the system clock (UTC instant)
    ticks,      \* number of times the clock has advanced so far
    stream,     \* the values `fake.pyint` returns, in call order
    drawn,      \* number of draws made from `fake` so far
    globals,    \* module globals: timedelta_kwargs, timedelta_kwargs_negative
    tables,     \* table name -> ordered dict (sequence of entries)
    params,     \* test name -> the library identifiers it is parametrized over
    pc,         \* position inside the current case
    case,       \* the running case: test, library, generated input
    results,    \* per callable invoked so far: library, argument given, result
    failure,    \* the exception the case raised, if any
    timed       \* the calls made to the `benchmark` fixture in this case

vars == <<phase, display, lstep, clock, ticks, stream, drawn, globals, tables, params,
          pc, case, results, failure, timed>>

(***************************************************************************)
(* Values                                                                  *)
(***************************************************************************)
NoneV == [kind |-> "none"]
DateTimeV(d, s, u, off) == [kind |-> "dt", d |-> d, s |-> s, u |-> u, off |-> off]
DeltaV(d, s, u) == [kind |-> "td", d |-> d, s |-> s, u |-> u]
FloatV(s, u) == [kind |-> "float", s |-> s, u |-> u]
IntV(v) == [kind |-> "int", v |-> v]
StrV(chars) == [kind |-> "str", chars |-> chars]
KeyErrorV(key) == [kind |-> "KeyError", key |-> key]

(***************************************************************************)
(* Calendar arithmetic of the datetime types                               *)
(***************************************************************************)
SecondsPerDay == 86400
MicrosPerSecond == 1000000

\* civil date of a day number (days since 1970-01-01)
CivilOf(dn) ==
    LET z == dn + 719468
        era == z \div 146097
        doe == z - era * 146097
        yoe == (doe - doe \div 1460 + doe \div 36524 - doe \div 146096) \div 365
        doy == doe - (365 * yoe + yoe \div 4 - yoe \div 100)
        mp == (5 * doy + 2) \div 153
        dd == doy - (153 * mp + 2) \div 5 + 1
        mm == IF mp < 10 THEN mp + 3 ELSE mp - 9
        yy == yoe + era * 400 + (IF mm <= 2 THEN 1 ELSE 0)
    IN  [year |-> yy, month |-> mm, day |-> dd]

\* day number of a civil date
DaysFromCivil(y, m, dd) ==
    LET yy == IF m <= 2 THEN y - 1 ELSE y
        era == yy \div 400
        yoe == yy - era * 400
        mp == IF m > 2 THEN m - 3 ELSE m + 9
        doy == (153 * mp + 2) \div 5 + dd - 1
        doe == yoe * 365 + yoe \div 4 - yoe \div 100 + doy
    IN  era * 146097 + doe - 719468

\* dt.day
Day(dt) == CivilOf(dt.d).day
\* dt.hour
Hour(dt) == dt.s \div 3600
\* dt.weekday(): Monday = 0 .. Sunday = 6
Weekday(dt) == (dt.d + 3) % 7

\* carry microseconds into seconds and seconds into days
Normalize(d, s, u) ==
    LET s1 == s + u \div MicrosPerSecond
        u1 == u % MicrosPerSecond
        d1 == d + s1 \div SecondsPerDay
        s2 == s1 % SecondsPerDay
    IN  [d |-> d1, s |-> s2, u |-> u1]

\* datetime + timedelta(days, seconds, microseconds), the offset kept
AddDelta(dt, days, secs, us) ==
    LET n == Normalize(dt.d + days, dt.s + secs, dt.u + us)
    IN  DateTimeV(n.d, n.s, n.u, dt.off)

\* the same instant read at UTC offset `off` (minutes)
AtOffset(dt, off) ==
    LET n == Normalize(dt.d, dt.s + (off - dt.off) * 60, dt.u)
    IN  DateTimeV(n.d, n.s, n.u, off)
ToUtc(dt) == AtOffset(dt, 0)

(***************************************************************************)
(* Text: a string is a sequence of one-character strings                   *)
(***************************************************************************)
DigitChars == <<"0", "1", "2", "3", "4", "5", "6", "7", "8", "9">>
IsDigit(c) == \E i \in 1..10 : DigitChars[i] = c
DigitVal(c) == (CHOOSE i \in 1..10 : DigitChars[i] = c) - 1

RECURSIVE Pow10(_)
Pow10(n) == IF n = 0 THEN 1 ELSE 10 * Pow10(n - 1)

\* "%0<width>d" % n
RECURSIVE Digits(_, _)
Digits(n, width) ==
    IF width = 0 THEN <<>>
    ELSE Append(Digits(n \div 10, width - 1), DigitChars[(n % 10) + 1])

\* int(chars[i..j])
RECURSIVE ParseInt(_, _, _)
ParseInt(chars, i, j) ==
    IF j < i THEN 0 ELSE 10 * ParseInt(chars, i, j - 1) + DigitVal(chars[j])

\* index of the first character at or after i that is not a digit
RECURSIVE DigitsEnd(_, _)
DigitsEnd(chars, i) ==
    IF i > Len(chars) \/ ~IsDigit(chars[i]) THEN i ELSE DigitsEnd(chars, i + 1)

\* "+HH:MM" / "-HH:MM" of a UTC offset in minutes
OffsetText(off) ==
    LET a == IF off < 0 THEN -off ELSE off
    IN  <<IF off < 0 THEN "-" ELSE "+">> \o Digits(a \div 60, 2) \o <<":">>
            \o Digits(a % 60, 2)

SecondsText(dt) ==
    LET c == CivilOf(dt.d)
    IN  Digits(c.year, 4) \o <<"-">> \o Digits(c.month, 2) \o <<"-">>
            \o Digits(c.day, 2) \o <<"T">> \o Digits(dt.s \div 3600, 2) \o <<":">>
            \o Digits((dt.s \div 60) % 60, 2) \o <<":">> \o Digits(dt.s % 60, 2)

\* datetime.isoformat(): the fraction is left out when microsecond is 0
isoformat(dt) ==
    StrV(SecondsText(dt)
         \o (IF dt.u = 0 THEN <<>> ELSE <<".">> \o Digits(dt.u, 6))
         \o OffsetText(dt.off))

\* udatetime.to_string(): RFC 3339 with the six-digit fraction always written
to_string(dt) ==
    StrV(SecondsText(dt) \o <<".">> \o Digits(dt.u, 6) \o OffsetText(dt.off))

\* the fields of "YYYY-MM-DDTHH:MM:SS[.f...](Z|+HH:MM|-HH:MM)" as written
ParseIso8601(text) ==
    LET c == text.chars
        fe == IF Len(c) >= 20 /\ c[20] = "." THEN DigitsEnd(c, 21) ELSE 20
        nf == IF fe = 20 THEN 0 ELSE fe - 21
        us == IF nf = 0 THEN 0
              ELSE IF nf <= 6 THEN ParseInt(c, 21, fe - 1) * Pow10(6 - nf)
              ELSE ParseInt(c, 21, 26)
        off == IF fe > Len(c) \/ c[fe] = "Z" THEN 0
               ELSE (IF c[fe] = "-" THEN -1 ELSE 1)
                    * (ParseInt(c, fe + 1, fe + 2) * 60 + ParseInt(c, fe + 4, fe + 5))
    IN  DateTimeV(DaysFromCivil(ParseInt(c, 1, 4), ParseInt(c, 6, 7), ParseInt(c, 9, 10)),
                  ParseInt(c, 12, 13) * 3600 + ParseInt(c, 15, 16) * 60 + ParseInt(c, 18, 19),
                  us, off)

\* (a parser that converts what it read to UTC)
MutFromisoformat(text) == ToUtc(ParseIso8601(text))

\* datetime.fromisoformat(text) and its counterparts: an aware instant with the
\* wall-clock fields and the offset of the text
fromisoformat(text) == ParseIso8601(text)

\* seconds of an ISO 8601 duration "P[nD][T[nH][nM][nS]]", read left to right
RECURSIVE DurationSeconds(_, _, _, _)
DurationSeconds(c, i, acc, inTime) ==
    IF i > Len(c) THEN 0
    ELSE IF IsDigit(c[i]) THEN DurationSeconds(c, i + 1, 10 * acc + DigitVal(c[i]), inTime)
    ELSE IF c[i] = "T" THEN DurationSeconds(c, i + 1, 0, TRUE)
    ELSE (CASE c[i] = "D" -> acc * SecondsPerDay
            [] c[i] = "H" -> acc * 3600
            [] c[i] = "M" /\ inTime -> acc * 60
            [] c[i] = "S" -> acc
            [] OTHER -> 0)
         + DurationSeconds(c, i + 1, 0, inTime)

parse_duration(text) ==
    LET n == Normalize(0, DurationSeconds(text.chars, 1, 0, FALSE), 0)
    IN  DeltaV(n.d, n.s, n.u)

\* datetime.utcfromtimestamp(ts) and its counterparts
utcfromtimestamp(ts) ==
    DateTimeV(ts.v \div SecondsPerDay, ts.v % SecondsPerDay, 0, 0)

(***************************************************************************)
(* The callables registered in the tables                                  *)
(***************************************************************************)
\* UTC offset, in minutes, of the machine's local time zone
LocalOffsetMinutes == 120

SATURDAY == 5

\* the keyword arguments of a shift: a draw for each of the four components
Kwargs(dy, hr, mi, us) == [days |-> dy, hours |-> hr, minutes |-> mi, microseconds |-> us]
NoKwargs == Kwargs(0, 0, 0, 0)

\* datetime.timedelta(**kw) / pendulum.duration(**kw), normalised
timedelta(kw) ==
    LET n == Normalize(kw.days, kw.hours * 3600 + kw.minutes * 60, kw.microseconds)
    IN  DeltaV(n.d, n.s, n.u)

\* dt + timedelta(**kw), dt + relativedelta(**kw), dt.shift(**kw), dt.add(**kw):
\* with no month or year component the four agree on a fixed-offset instant
shift(dt, kw) ==
    AddDelta(dt, kw.days, kw.hours * 3600 + kw.minutes * 60, kw.microseconds)

\* td.total_seconds(): whole seconds and the microsecond fraction
total_seconds(td) == FloatV(td.d * SecondsPerDay + td.s, td.u)

\* dt.isoweekday(): Monday = 1 .. Sunday = 7
isoweekday(dt) == IntV(Weekday(dt) + 1)

\* pendulum's dt.day_of_week: Sunday = 0 .. Saturday = 6
day_of_week(dt) == IntV((Weekday(dt) + 1) % 7)

\* dt + relativedelta(weekday=SA(+1)) and arrow's dt.shift(weekday=SATURDAY):
\* the first Saturday on or after dt, dt itself when it is a Saturday
relativedelta_weekday(dt) == AddDelta(dt, (7 + SATURDAY - Weekday(dt)) % 7, 0, 0)

\* pendulum's dt.next(pendulum.SATURDAY): midnight of the first Saturday
\* strictly after dt
pendulum_next(dt) ==
    DateTimeV(dt.d + 1 + ((7 + SATURDAY - Weekday(dt) - 1) % 7), 0, 0, dt.off)

\* (the first Saturday strictly after dt, at dt's time of day)
MutPythonNextSaturday(dt) == AddDelta(dt, 1 + ((7 + SATURDAY - Weekday(dt) - 1) % 7), 0, 0)

\* dt + datetime.timedelta((7 + SATURDAY - dt.weekday()) % 7)
python_next_saturday(dt) == AddDelta(dt, (7 + SATURDAY - Weekday(dt)) % 7, 0, 0)

\* the clock read as an aware UTC instant, and as local time
utcnow(clk) == DateTimeV(clk.d, clk.s, clk.u, 0)
now(clk) == AtOffset(utcnow(clk), LocalOffsetMinutes)

NowUtcFuncs == {"arrow.utcnow", "partial(datetime.datetime.now, tz.UTC)",
                "partial(pendulum.now, pendulum.UTC)",
                "partial(datetime.datetime.now, datetime.UTC)", "udatetime.utcnow"}
NowLocalFuncs == {"arrow.now", "pendulum.now", "datetime.datetime.now", "udatetime.now"}
ShiftForwardFuncs == {"dt.shift(**timedelta_kwargs)", "dt + relativedelta(**timedelta_kwargs)",
                      "dt.add(**timedelta_kwargs)", "dt + datetime.timedelta(**timedelta_kwargs)"}
ShiftBackwardFuncs == {"dt.shift(**timedelta_kwargs_negative)",
                       "dt + relativedelta(**timedelta_kwargs_negative)",
                       "dt.add(**timedelta_kwargs_negative)",
                       "dt + datetime.timedelta(**timedelta_kwargs_negative)"}
FromTimestampFuncs == {"arrow.get", "pendulum.from_timestamp",
                       "datetime.datetime.utcfromtimestamp", "udatetime.utcfromtimestamp",
                       "TypeAdapter(pydantic.AwareDatetime).validate_python"}
FromStringFuncs == {"arrow.get", "dateutil.parser.isoparse", "pendulum.parse",
                    "datetime.datetime.fromisoformat", "udatetime.from_string",
                    "TypeAdapter(pydantic.AwareDatetime).validate_python",
                    "pd.Timestamp(dt).to_pydatetime()"}
DurationFuncs == {"pendulum.parse", "TypeAdapter(datetime.timedelta).validate_python",
                  "pd.Timedelta"}

\* func(arg), with the module globals g and the clock clk the call reads
Call(func, arg, g, clk) ==
    CASE func \in NowUtcFuncs -> utcnow(clk)
      [] func \in NowLocalFuncs -> now(clk)
      [] func \in ShiftForwardFuncs -> shift(arg, g.timedelta_kwargs)
      [] func \in ShiftBackwardFuncs -> shift(arg, g.timedelta_kwargs_negative)
      [] func = "td.total_seconds()" -> total_seconds(arg)
      [] func = "dt.isoweekday()" -> isoweekday(arg)
      [] func = "td.day_of_week" -> day_of_week(arg)
      [] func \in {"dt.shift(weekday=SATURDAY)", "dt + relativedelta(weekday=SA(+1))"}
            -> relativedelta_weekday(arg)
      [] func = "dt.next(pendulum.SATURDAY)" -> pendulum_next(arg)
      [] func = "dt + datetime.timedelta((7 + SATURDAY - dt.weekday()) % 7)"
            -> python_next_saturday(arg)
      [] func = "dt.isoformat()" -> isoformat(arg)
      [] func = "udatetime.to_string" -> to_string(arg)
      [] func \in FromTimestampFuncs /\ arg.kind = "int" -> utcfromtimestamp(arg)
      [] func \in DurationFuncs /\ arg.kind = "str" /\ arg.chars[1] = "P" -> parse_duration(arg)
      [] func \in FromStringFuncs /\ arg.kind = "str" -> fromisoformat(arg)
      [] OTHER -> NoneV

(***************************************************************************)
(* dict: an ordered mapping, a sequence of [key, value] in insertion order *)
(***************************************************************************)
DictKeys(d) == [i \in 1..Len(d) |-> d[i].key]
DictValues(d) == [i \in 1..Len(d) |-> d[i].value]
DictHas(d, k) == \E i \in 1..Len(d) : d[i].key = k

\* (a store that keeps the value already present)
MutDictSetItem(d, k, v) ==
    IF DictHas(d, k) THEN d ELSE Append(d, [key |-> k, value |-> v])

\* d[k] = v: a new key is appended, an existing key keeps its place and
\* takes the new value
DictSetItem(d, k, v) ==
    IF DictHas(d, k)
    THEN [i \in 1..Len(d) |-> IF d[i].key = k THEN [key |-> k, value |-> v] ELSE d[i]]
    ELSE Append(d, [key |-> k, value |-> v])

\* d[k]: the value, or KeyError
DictGetItem(d, k) ==
    IF DictHas(d, k)
    THEN d[CHOOSE i \in 1..Len(d) : d[i].key = k].value
    ELSE KeyErrorV(k)

\* the values stored in a table: a bare callable, or a (callable, argument) tuple
CallableV(func) == [kind |-> "callable", func |-> func]
TupleV(func, arg) == [kind |-> "tuple", func |-> func, arg |-> arg]

(***************************************************************************)
(* The test modules: their module-level statements, in import order        *)
(***************************************************************************)
Store(table, key, func, arg) ==
    [op |-> "store", table |-> table, key |-> key, func |-> func, arg |-> arg]
Draw(name, sign) == [op |-> "draw", table |-> name, key |-> "", func |-> "", arg |-> sign]
Def(test, table) == [op |-> "def", table |-> table, key |-> test, func |-> "", arg |-> ""]

test_dump ==
    << Store("libraries_convert_dt_to_isoformat_string", "arrow", "dt.isoformat()", "utcnow"),
       Store("libraries_convert_dt_to_isoformat_string", "pendulum", "dt.isoformat()", "utcnow"),
       Store("libraries_convert_dt_to_isoformat_string", "python", "dt.isoformat()", "utcnow"),
       Store("libraries_convert_dt_to_isoformat_string", "udatetime", "udatetime.to_string", "utcnow"),
       Def("test_convert_dt_to_isoformat_string", "libraries_convert_dt_to_isoformat_string") >>

test_manipulate ==
    << Store("libraries_now_utc", "arrow", "arrow.utcnow", "-"),
       Store("libraries_now_utc", "dateutil", "partial(datetime.datetime.now, tz.UTC)", "-"),
       Store("libraries_now_utc", "pendulum", "partial(pendulum.now, pendulum.UTC)", "-"),
       Store("libraries_now_utc", "python", "partial(datetime.datetime.now, datetime.UTC)", "-"),
       Store("libraries_now_utc", "udatetime", "udatetime.utcnow", "-"),
       Def("test_now_utc", "libraries_now_utc"),
       Store("libraries_now_local", "arrow", "arrow.now", "-"),
       Store("libraries_now_local", "pendulum", "pendulum.now", "-"),
       Store("libraries_now_local", "python", "datetime.datetime.now", "-"),
       Store("libraries_now_local", "udatetime", "udatetime.now", "-"),
       Def("test_now_local", "libraries_now_local"),
       Draw("timedelta_kwargs", 1),
       Store("libraries_shift_forward", "arrow", "dt.shift(**timedelta_kwargs)", "utcnow"),
       Store("libraries_shift_forward", "dateutil", "dt + relativedelta(**timedelta_kwargs)", "utcnow"),
       Store("libraries_shift_forward", "pendulum", "dt.add(**timedelta_kwargs)", "utcnow"),
       Store("libraries_shift_forward", "python", "dt + datetime.timedelta(**timedelta_kwargs)", "utcnow"),
       Def("test_add_timedelta", "libraries_shift_forward"),
       Draw("timedelta_kwargs_negative", -1),
       Store("libraries_shift_backward", "arrow", "dt.shift(**timedelta_kwargs_negative)", "utcnow"),
       Store("libraries_shift_backward", "dateutil", "dt + relativedelta(**timedelta_kwargs_negative)", "utcnow"),
       Store("libraries_shift_backward", "pendulum", "dt.add(**timedelta_kwargs_negative)", "utcnow"),
       Store("libraries_shift_backward", "python", "dt + datetime.timedelta(**timedelta_kwargs_negative)", "utcnow"),
       Def("test_substract_timedelta", "libraries_shift_backward"),
       Store("libraries_timedelta_to_seconds", "pendulum", "td.total_seconds()", "timedelta_kwargs"),
       Store("libraries_timedelta_to_seconds", "python", "td.total_seconds()", "timedelta_kwargs"),
       Def("test_timedelta_to_seconds", "libraries_timedelta_to_seconds"),
       Store("libraries_isoweekday", "arrow", "dt.isoweekday()", "utcnow"),
       Store("libraries_isoweekday", "pendulum", "td.day_of_week", "utcnow"),
       Store("libraries_isoweekday", "python", "dt.isoweekday()", "utcnow"),
       Store("libraries_isoweekday", "udatetime", "dt.isoweekday()", "utcnow"),
       Def("test_isoweekday", "libraries_isoweekday"),
       Store("libraries_find_next_saturday", "arrow", "dt.shift(weekday=SATURDAY)", "utcnow"),
       Store("libraries_find_next_saturday", "dateutil", "dt + relativedelta(weekday=SA(+1))", "utcnow"),
       Store("libraries_find_next_saturday", "pendulum", "dt.next(pendulum.SATURDAY)", "utcnow"),
       Store("libraries_find_next_saturday", "python",
             "dt + datetime.timedelta((7 + SATURDAY - dt.weekday()) % 7)", "utcnow"),
       Def("test_find_next_saturday", "libraries_find_next_saturday") >>

test_parse ==
    << Store("libraries_parse_utc_from_unix_timestamp", "arrow", "arrow.get", "-"),
       Store("libraries_parse_utc_from_unix_timestamp", "pendulum", "pendulum.from_timestamp", "-"),
       Store("libraries_parse_utc_from_unix_timestamp", "python", "datetime.datetime.utcfromtimestamp", "-"),
       Store("libraries_parse_utc_from_unix_timestamp", "udatetime", "udatetime.utcfromtimestamp", "-"),
       Store("libraries_parse_utc_from_unix_timestamp", "pydantic",
             "TypeAdapter(pydantic.AwareDatetime).validate_python", "-"),
       Def("test_parse_utc_from_timestamp", "libraries_parse_utc_from_unix_timestamp"),
       Store("libraries_parse_utc_from_iso_8601", "arrow", "arrow.get", "-"),
       Store("libraries_parse_utc_from_iso_8601", "dateutil", "dateutil.parser.isoparse", "-"),
       Store("libraries_parse_utc_from_iso_8601", "pendulum", "pendulum.parse", "-"),
       Store("libraries_parse_utc_from_iso_8601", "python", "datetime.datetime.fromisoformat", "-"),
       Store("libraries_parse_utc_from_iso_8601", "udatetime", "udatetime.from_string", "-"),
       Store("libraries_parse_utc_from_iso_8601", "pydantic",
             "TypeAdapter(pydantic.AwareDatetime).validate_python", "-"),
       Store("libraries_parse_utc_from_iso_8601", "pandas", "pd.Timestamp(dt).to_pydatetime()", "-"),
       Def("test_parse_utc_from_iso_8601", "libraries_parse_utc_from_iso_8601"),
       Store("libraries_parse_utc_from_iso_8601_duration", "pendulum", "pendulum.parse", "-"),
       Store("libraries_parse_utc_from_iso_8601_duration", "pydantic",
             "TypeAdapter(datetime.timedelta).validate_python", "-"),
       Store("libraries_parse_utc_from_iso_8601_duration", "pandas", "pd.Timedelta", "-"),
       Def("test_parse_utc_from_iso_8601_duration", "libraries_parse_utc_from_iso_8601_duration"),
       Store("libraries_parse_utc_from_rfc_3339", "arrow", "arrow.get", "-"),
       Store("libraries_parse_utc_from_rfc_3339", "pendulum", "pendulum.parse", "-"),
       Store("libraries_parse_utc_from_rfc_3339", "python", "datetime.datetime.fromisoformat", "-"),
       Store("libraries_parse_utc_from_rfc_3339", "udatetime", "udatetime.from_string", "-"),
       Store("libraries_parse_utc_from_rfc_3339", "pydantic",
             "TypeAdapter(pydantic.AwareDatetime).validate_python", "-"),
       Store("libraries_parse_utc_from_rfc_3339", "pandas", "pd.Timestamp(dt).to_pydatetime()", "-"),
       Def("test_parse_utc_from_rfc_3339", "libraries_parse_utc_from_rfc_3339") >>

\* the modules are imported in collection order before any case runs
LoadSteps == test_dump \o test_manipulate \o test_parse

TableNames == {LoadSteps[i].table : i \in {j \in 1..Len(LoadSteps) : LoadSteps[j].op = "store"}}
TestNames == {LoadSteps[i].key : i \in {j \in 1..Len(LoadSteps) : LoadSteps[j].op = "def"}}
Libraries == {LoadSteps[i].key : i \in {j \in 1..Len(LoadSteps) : LoadSteps[j].op = "store"}}

(***************************************************************************)
(* The test functions                                                      *)
(***************************************************************************)
Rfc3339Literal == StrV(<<"1", "9", "9", "6", "-", "1", "2", "-", "1", "9", "T", "1", "6", ":", "3", "9", ":", "5", "7", "-", "0", "8", ":", "0", "0">>)
Rfc3339Examples ==
    << StrV(<<"1", "9", "8", "5", "-", "0", "4", "-", "1", "2", "T", "2", "3", ":", "2", "0", ":", "5", "0", ".", "5", "2", "Z">>),
       Rfc3339Literal,
       StrV(<<"1", "9", "3", "7", "-", "0", "1", "-", "0", "1", "T", "1", "2", ":", "0", "0", ":", "2", "7", ".", "8", "7", "+", "0", "0", ":", "2", "0">>) >>
Iso8601DurationExample == StrV(<<"P", "1", "D", "T", "1", "2", "H">>)

\* values `fake.unix_time()` and `fake.iso8601(tzinfo=datetime.UTC)` may return
FakeUnixTimes == {IntV(851042397), IntV(1717891199)}
FakeIso8601 ==
    { StrV(<<"2", "0", "0", "3", "-", "0", "7", "-", "1", "1", "T", "0", "5", ":", "3", "3", ":", "4", "6", "+", "0", "0", ":", "0", "0">>),
      StrV(<<"2", "0", "1", "5", "-", "0", "3", "-", "0", "1", "T", "0", "6", ":", "4", "3", ":", "1", "4", ".", "4", "3", "7", "3", "6", "3", "+", "0", "0", ":", "0", "0">>) }

Test(checked, timedTable, projection, message, input, bench) ==
    [checked |-> checked, timed |-> timedTable, projection |-> projection,
     message |-> message, input |-> input, bench |-> bench]

\* per test: the table whose callables are checked, the table whose callable
\* is benchmarked, the projection compared, the assertion message, the input
\* handed to the callables, and the form of the benchmark call
TestInfo ==
    [t \in TestNames |->
       CASE t = "test_now_utc" ->
              Test("libraries_now_utc", "libraries_now_utc", "hour", "none", "none", "func")
         [] t = "test_now_local" ->
              Test("libraries_now_local", "libraries_now_local", "hour", "none", "none", "func")
         [] t = "test_add_timedelta" ->
              Test("libraries_shift_forward", "libraries_shift_forward", "day",
                   "datetimes", "arg", "func_arg")
         [] t = "test_substract_timedelta" ->
              Test("libraries_shift_forward", "libraries_shift_backward", "day",
                   "providers_datetimes", "arg", "func_arg")
         [] t = "test_timedelta_to_seconds" ->
              Test("libraries_timedelta_to_seconds", "libraries_timedelta_to_seconds",
                   "value", "none", "arg", "func_arg")
         [] t = "test_isoweekday" ->
              Test("libraries_isoweekday", "libraries_isoweekday", "value", "none",
                   "arg", "func_arg")
         [] t = "test_find_next_saturday" ->
              Test("libraries_find_next_saturday", "libraries_find_next_saturday", "day",
                   "none", "arg", "func_arg")
         [] t = "test_convert_dt_to_isoformat_string" ->
              Test("libraries_convert_dt_to_isoformat_string",
                   "libraries_convert_dt_to_isoformat_string", "len", "{s: len(s)}",
                   "arg", "func_arg")
         [] t = "test_parse_utc_from_timestamp" ->
              Test("libraries_parse_utc_from_unix_timestamp",
                   "libraries_parse_utc_from_unix_timestamp", "day", "none",
                   "fake.unix_time()", "func_input")
         [] t = "test_parse_utc_from_iso_8601" ->
              Test("libraries_parse_utc_from_iso_8601", "libraries_parse_utc_from_iso_8601",
                   "day", "none", "fake.iso8601()", "func_input")
         [] t = "test_parse_utc_from_iso_8601_duration" ->
              Test("libraries_parse_utc_from_iso_8601_duration",
                   "libraries_parse_utc_from_iso_8601_duration", "total_seconds", "none",
                   "iso8601_examples[0]", "func_input")
         [] t = "test_parse_utc_from_rfc_3339" ->
              Test("libraries_parse_utc_from_rfc_3339", "libraries_parse_utc_from_rfc_3339",
                   "day", "none", "literal", "parse")]

\* the inputs a case of test t may generate or hold
Inputs(t) ==
    CASE TestInfo[t].input = "fake.unix_time()" -> FakeUnixTimes
      [] TestInfo[t].input = "fake.iso8601()" -> FakeIso8601
      [] TestInfo[t].input = "iso8601_examples[0]" -> {Iso8601DurationExample}
      [] TestInfo[t].input = "literal" -> {Rfc3339Literal}
      [] OTHER -> {NoneV}

\* the tests whose body draws its input from the module-level `fake`
DrawsInput(t) == TestInfo[t].input \in {"fake.unix_time()", "fake.iso8601()"}

\* the values of S in a fixed order
Enumerate(S) ==
    CHOOSE f \in [1..Cardinality(S) -> S] :
        \A i, j \in 1..Cardinality(S) : f[i] = f[j] => i = j

\* what the generator seeded as st returns from S on its (n + 1)-th draw: a
\* function of the seed and of the number of draws made before
FakeDraw(S, st, n) ==
    Enumerate(S)[((st[(n % Len(st)) + 1] + n) % Cardinality(S)) + 1]

\* (a generator seeded anew for every draw)
MutFakeAdvance(n) == n

\* the state of the generator after a draw made in state n
FakeAdvance(n) == n + 1

\* the comparable value a test takes from a result
Project(projection, v) ==
    CASE projection = "day" -> IntV(Day(v))
      [] projection = "hour" -> IntV(Hour(v))
      [] projection = "len" -> IntV(Len(v.chars))
      [] projection = "total_seconds" -> total_seconds(v)
      [] OTHER -> v

Projections(projection, rs) == {Project(projection, rs[i].value) : i \in 1..Len(rs)}

\* (every assert written like the one of test_substract_timedelta)
MutMessage(message, rs) ==
    [kind |-> "dict",
     items |-> [i \in 1..Len(rs) |-> [key |-> rs[i].key, value |-> rs[i].value]]]

\* {s: len(s) for s in iso_strings}
RECURSIVE LengthByString(_, _)
LengthByString(rs, n) ==
    IF n = 0 THEN <<>>
    ELSE DictSetItem(LengthByString(rs, n - 1), rs[n].value, IntV(Len(rs[n].value.chars)))

\* the second operand of the assert statement
Message(message, rs) ==
    CASE message = "datetimes" -> [kind |-> "list", items |-> DictValues(rs)]
      [] message = "providers_datetimes" ->
            [kind |-> "dict",
             items |-> [i \in 1..Len(rs) |-> [key |-> rs[i].key, value |-> rs[i].value]]]
      [] message = "{s: len(s)}" -> [kind |-> "dict", items |-> LengthByString(rs, Len(rs))]
      [] OTHER -> NoneV

\* the argument the check hands to the callable of table entry e
CheckArg(t, e, input) ==
    CASE TestInfo[t].input = "none" -> NoneV
      [] TestInfo[t].input = "arg" -> e.value.arg
      [] OTHER -> input

\* the call the case makes to the benchmark fixture with table value v: the
\* callable and its arguments, or the closure `parse`, which calls the library's
\* callable on each of the RFC 3339 examples
BenchmarkCall(t, v, input) ==
    CASE TestInfo[t].bench = "func" ->
            [callable |-> v.func, wraps |-> "", over |-> <<>>, args |-> <<>>]
      [] TestInfo[t].bench = "func_arg" ->
            [callable |-> v.func, wraps |-> "", over |-> <<>>, args |-> <<v.arg>>]
      [] TestInfo[t].bench = "func_input" ->
            [callable |-> v.func, wraps |-> "", over |-> <<>>, args |-> <<input>>]
      [] OTHER ->
            [callable |-> "parse", wraps |-> v.func, over |-> Rfc3339Examples, args |-> <<>>]

(***************************************************************************)
(* The session                                                             *)
(***************************************************************************)
\* the clock advances at most MaxTicks times, by TickMicros microseconds
MaxTicks == 1
TickMicros == 1

\* the draws of `fake` followed once the tables are built
MaxDraws == 2

\* the range of fake.pyint(min_value=400, max_value=500)
PyintMin == 400
PyintMax == 500

\* clock readings at which the session may start: a Friday afternoon (seven
\* hours and 500 microseconds before midnight) and the last microsecond of a
\* Saturday
StartInstants ==
    { [d |-> 19881, s |-> 61199, u |-> 999499],
      [d |-> 19882, s |-> 86399, u |-> 999999] }

\* sequences of values the eight fake.pyint calls may return
FakerStreams ==
    { <<450, 408, 420, 500, 450, 408, 420, 500>>,
      <<400, 500, 431, 462, 500, 400, 478, 409>> }

NoCase == [test |-> "", library |-> "", input |-> NoneV]

Init ==
    /\ phase = "load"
    /\ display = LoadSteps
    /\ lstep = 1
    /\ clock \in StartInstants
    /\ ticks = 0
    /\ stream \in {st \in FakerStreams :
                      \A i \in 1..Len(st) : st[i] \in PyintMin..PyintMax}
    /\ drawn = 0
    /\ globals = [timedelta_kwargs |-> NoneV, timedelta_kwargs_negative |-> NoneV]
    /\ tables = [t \in TableNames |-> <<>>]
    /\ params = [t \in TestNames |-> <<>>]
    /\ pc = "idle"
    /\ case = NoCase
    /\ results = <<>>
    /\ failure = NoneV
    /\ timed = <<>>

\* the system clock moves on
Tick ==
    /\ ticks < MaxTicks
    /\ clock' = Normalize(clock.d, clock.s, clock.u + TickMicros)
    /\ ticks' = ticks + 1
    /\ UNCHANGED <<phase, display, lstep, stream, drawn, globals, tables, params,
                   pc, case, results, failure, timed>>

Advance ==
    /\ lstep' = lstep + 1
    /\ phase' = IF lstep = Len(display) THEN "run" ELSE "load"
    /\ UNCHANGED display

\* the value a dict display stores for a statement: the callable alone, or a
\* tuple with the argument evaluated when the display is
EntryValue(st, g, clk) ==
    CASE st.arg = "-" -> CallableV(st.func)
      [] st.arg = "utcnow" -> TupleV(st.func, utcnow(clk))
      [] OTHER -> TupleV(st.func, timedelta(g.timedelta_kwargs))

\* one key: value pair of a table's dict display
StoreEntry ==
    /\ phase = "load"
    /\ display[lstep].op = "store"
    /\ LET st == display[lstep]
       IN  tables' = [tables EXCEPT
                        ![st.table] = DictSetItem(@, st.key, EntryValue(st, globals, clock))]
    /\ Advance
    /\ UNCHANGED <<clock, ticks, stream, drawn, globals, params,
                   pc, case, results, failure, timed>>

\* (the sign before fake.pyint left out)
MutDrawnKwargs(st, n, sign) == Kwargs(st[n + 1], st[n + 2], st[n + 3], st[n + 4])

\* dict(days=fake.pyint(...), hours=..., minutes=..., microseconds=...)
DrawnKwargs(st, n, sign) ==
    Kwargs(sign * st[n + 1], sign * st[n + 2], sign * st[n + 3], sign * st[n + 4])

DrawKwargs ==
    /\ phase = "load"
    /\ display[lstep].op = "draw"
    /\ LET st == display[lstep]
       IN  globals' = [globals EXCEPT ![st.table] = DrawnKwargs(stream, drawn, st.arg)]
    /\ drawn' = drawn + 4
    /\ Advance
    /\ UNCHANGED <<clock, ticks, stream, tables, params, pc, case, results, failure, timed>>

\* (a fixed list of libraries in the place of the table)
MutParametrizeOver(tbl) ==
    <<"arrow", "dateutil", "pendulum", "python", "udatetime", "pydantic", "pandas">>

\* the parameter values: iterating a dict yields its keys, in order
ParametrizeOver(tbl) == DictKeys(tbl)

\* @pytest.mark.parametrize("library", table) on a test function
Parametrize ==
    /\ phase = "load"
    /\ display[lstep].op = "def"
    /\ LET st == display[lstep]
       IN  params' = [params EXCEPT ![st.key] = ParametrizeOver(tables[st.table])]
    /\ Advance
    /\ UNCHANGED <<clock, ticks, stream, drawn, globals, tables,
                   pc, case, results, failure, timed>>

\* the runner starts one (test, library) case; a test that generates its
\* input draws it from `fake` in its first statement
StartCase ==
    /\ phase = "run"
    /\ pc = "idle"
    /\ \E t \in TestNames :
         \E i \in 1..Len(params[t]) :
           IF DrawsInput(t)
           THEN /\ drawn < Len(stream) + MaxDraws
                /\ case' = [test |-> t, library |-> params[t][i],
                            input |-> FakeDraw(Inputs(t), stream, drawn)]
                /\ drawn' = FakeAdvance(drawn)
           ELSE /\ \E input \in Inputs(t) :
                     case' = [test |-> t, library |-> params[t][i], input |-> input]
                /\ UNCHANGED drawn
    /\ pc' = "check"
    /\ results' = <<>>
    /\ failure' = NoneV
    /\ timed' = <<>>
    /\ UNCHANGED <<phase, display, lstep, clock, ticks, stream, globals, tables, params>>

\* the next callable of the checked table is invoked
Invoke ==
    /\ pc = "check"
    /\ LET tbl == tables[TestInfo[case.test].checked]
       IN  /\ Len(results) < Len(tbl)
           /\ LET e == tbl[Len(results) + 1]
              IN  results' = Append(results,
                      [key |-> e.key,
                       arg |-> CheckArg(case.test, e, case.input),
                       value |-> Call(e.value.func, CheckArg(case.test, e, case.input),
                                      globals, clock)])
    /\ UNCHANGED <<phase, display, lstep, clock, ticks, stream, drawn, globals, tables, params,
                   pc, case, failure, timed>>

\* (an assert that lets the case go on whatever the outcome)
MutAfterAssert(holds) == "bench"

\* where a case goes after its assert statement: on, or out with the exception
AfterAssert(holds) == IF holds THEN "bench" ELSE "failed"

\* assert len({projection(r) for r in results}) == 1, message
AssertEquivalent ==
    /\ pc = "check"
    /\ Len(results) = Len(tables[TestInfo[case.test].checked])
    /\ pc' = AfterAssert(Cardinality(Projections(TestInfo[case.test].projection, results)) = 1)
    /\ IF Cardinality(Projections(TestInfo[case.test].projection, results)) = 1
       THEN UNCHANGED failure
       ELSE failure' = [kind |-> "AssertionError",
                        message |-> Message(TestInfo[case.test].message, results)]
    /\ UNCHANGED <<phase, display, lstep, clock, ticks, stream, drawn, globals, tables, params,
                   case, results, timed>>

\* the table value of the case's library is looked up and benchmarked
Benchmark ==
    /\ pc = "bench"
    /\ LET v == DictGetItem(tables[TestInfo[case.test].timed], case.library)
       IN  IF v.kind = "KeyError"
           THEN /\ pc' = "error"
                /\ failure' = v
                /\ UNCHANGED timed
           ELSE /\ pc' = "passed"
                /\ timed' = Append(timed, BenchmarkCall(case.test, v, case.input))
                /\ UNCHANGED failure
    /\ UNCHANGED <<phase, display, lstep, clock, ticks, stream, drawn, globals, tables, params,
                   case, results>>

\* the case is over; the runner reports it and may start another
EndCase ==
    /\ pc \in {"passed", "failed", "error"}
    /\ pc' = "idle"
    /\ case' = NoCase
    /\ results' = <<>>
    /\ failure' = NoneV
    /\ timed' = <<>>
    /\ UNCHANGED <<phase, display, lstep, clock, ticks, stream, drawn, globals, tables, params>>

Next ==
    \/ Tick
    \/ StoreEntry
    \/ DrawKwargs
    \/ Parametrize
    \/ StartCase
    \/ Invoke
    \/ AssertEquivalent
    \/ Benchmark
    \/ EndCase

Spec == Init /\ [][Next]_vars

(***************************************************************************)
(* A table literal with arbitrary entries: the dict display of one table   *)
(* is evaluated, and a test is parametrized over it                        *)
(***************************************************************************)
MaxDisplayLen == 3
DisplayKeys == {"arrow", "python"}
DisplayFuncs == {"arrow.utcnow", "udatetime.utcnow"}

Displays ==
    UNION { { [i \in 1..(n + 1) |->
                 IF i <= n
                 THEN Store("libraries_now_utc", d[i][1], d[i][2], "-")
                 ELSE Def("test_now_utc", "libraries_now_utc")] :
              d \in [1..n -> DisplayKeys \X DisplayFuncs] } :
            n \in 1..MaxDisplayLen }

InitRegistry ==
    /\ phase = "load"
    /\ display \in Displays
    /\ lstep = 1
    /\ clock \in StartInstants
    /\ ticks = 0
    /\ stream \in FakerStreams
    /\ drawn = 0
    /\ globals = [timedelta_kwargs |-> NoneV, timedelta_kwargs_negative |-> NoneV]
    /\ tables = [t \in TableNames |-> <<>>]
    /\ params = [t \in TestNames |-> <<>>]
    /\ pc = "idle"
    /\ case = NoCase
    /\ results = <<>>
    /\ failure = NoneV
    /\ timed = <<>>

NextRegistry ==
    \/ StoreEntry
    \/ Parametrize

SpecRegistry == InitRegistry /\ [][NextRegistry]_vars

(***************************************************************************)
(* The find-next-Saturday table alone, built at an instant of any weekday, *)
(* and the cases of test_find_next_saturday run over it                    *)
(***************************************************************************)
MaxDaySpan == 13
FirstDay == 19868

\* clock readings at which the table may be built: the first and the last
\* microsecond of each day from Saturday 2024-05-25 on
SaturdayInstants ==
    { [d |-> FirstDay + i, s |-> t[1], u |-> t[2]] :
        i \in 0..MaxDaySpan, t \in {<<0, 0>>, <<SecondsPerDay - 1, MicrosPerSecond - 1>>} }

InitSaturday ==
    /\ phase = "load"
    /\ display = SelectSeq(LoadSteps, LAMBDA st : st.table = "libraries_find_next_saturday")
    /\ lstep = 1
    /\ clock \in SaturdayInstants
    /\ ticks = 0
    /\ stream \in FakerStreams
    /\ drawn = 0
    /\ globals = [timedelta_kwargs |-> NoneV, timedelta_kwargs_negative |-> NoneV]
    /\ tables = [t \in TableNames |-> <<>>]
    /\ params = [t \in TestNames |-> <<>>]
    /\ pc = "idle"
    /\ case = NoCase
    /\ results = <<>>
    /\ failure = NoneV
    /\ timed = <<>>

NextSaturday ==
    \/ StoreEntry
    \/ Parametrize
    \/ StartCase
    \/ Invoke
    \/ AssertEquivalent
    \/ Benchmark
    \/ EndCase

SpecSaturday == InitSaturday /\ [][NextSaturday]_vars

(***************************************************************************)
(* Properties                                                              *)
(***************************************************************************)
\* the case has invoked every callable of the table it checks
AllInvoked ==
    /\ pc = "check"
    /\ Len(results) = Len(tables[TestInfo[case.test].checked])

CaseProjections == Projections(TestInfo[case.test].projection, results)

\* C1: in every case over a table of at least two libraries, the callables
\* invoked are exactly those of the checked table, in its order, and their
\* projected results form a set of exactly one value.
C1_EquivalenceHolds ==
    AllInvoked /\ Len(results) >= 2 =>
        /\ DictKeys(results) = DictKeys(tables[TestInfo[case.test].checked])
        /\ Cardinality(CaseProjections) = 1

\* the libraries registered for both shift directions
ShiftLibraries ==
    {k \in Libraries : /\ DictHas(tables["libraries_shift_forward"], k)
                       /\ DictHas(tables["libraries_shift_backward"], k)}

\* the forward shift of a library applied to its registered instant, and the
\* backward shift of the same library applied to the outcome
ShiftedForward(k) ==
    LET f == DictGetItem(tables["libraries_shift_forward"], k)
    IN  Call(f.func, f.arg, globals, clock)
RoundTrip(k) ==
    Call(DictGetItem(tables["libraries_shift_backward"], k).func, ShiftedForward(k),
         globals, clock)

\* timedelta_kwargs + timedelta_kwargs_negative, component by component
NetKwargs ==
    Kwargs(globals.timedelta_kwargs.days + globals.timedelta_kwargs_negative.days,
           globals.timedelta_kwargs.hours + globals.timedelta_kwargs_negative.hours,
           globals.timedelta_kwargs.minutes + globals.timedelta_kwargs_negative.minutes,
           globals.timedelta_kwargs.microseconds
               + globals.timedelta_kwargs_negative.microseconds)
Spread == PyintMax - PyintMin

C3_Rfc3339UtcDayIs19 ==
    AllInvoked /\ case.test = "test_parse_utc_from_rfc_3339" =>
        \A i \in 1..Len(results) : Day(ToUtc(results[i].value)) = 19

\* C3 amended: every callable returns the instant with the literal's own
\* -08:00 offset, whose day-of-month is 19; normalised to UTC the instant falls
\* on day 20. The case goes on to the benchmark exactly when the days of all
\* libraries agree: the assertion compares the libraries with each other and
\* names no expected day.
C3_Rfc3339KeepsOffset ==
    case.test = "test_parse_utc_from_rfc_3339" =>
        /\ \A i \in 1..Len(results) :
              /\ results[i].arg = Rfc3339Literal
              /\ results[i].value.off = -480
              /\ Day(results[i].value) = 19
              /\ Hour(results[i].value) = 16
              /\ Day(ToUtc(results[i].value)) = 20
        /\ pc \in {"bench", "passed"} =>
              /\ DictKeys(results) = DictKeys(tables["libraries_parse_utc_from_rfc_3339"])
              /\ Cardinality(CaseProjections) = 1
        /\ pc # "failed"

\* the literal has been parsed by all six libraries and the assertion passed
C3_Witness ==
    /\ case.test = "test_parse_utc_from_rfc_3339"
    /\ pc = "bench"
    /\ Len(results) = 6
    /\ CaseProjections = {IntV(19)}

\* C4: in the cases of test_now_utc and test_now_local the instants returned
\* by all callables have the same hour.
C4_NowHoursAgree ==
    AllInvoked /\ case.test \in {"test_now_utc", "test_now_local"} =>
        Cardinality({Hour(results[i].value) : i \in 1..Len(results)}) = 1

\* the statements of the display that store under key k
StoresOf(k) == {i \in 1..Len(display) : display[i].op = "store" /\ display[i].key = k}
LastOf(S) == CHOOSE i \in S : \A j \in S : j <= i
FirstOf(S) == CHOOSE i \in S : \A j \in S : i <= j

\* the table literal has been evaluated and holds the same key twice
DisplayedDuplicate ==
    /\ phase = "run"
    /\ \E k \in DisplayKeys : Cardinality(StoresOf(k)) >= 2

C6_LookupNeverFails ==
    /\ pc = "bench" =>
          \A k \in Libraries :
              LET tbl == tables[TestInfo[case.test].timed]
              IN  IF \E i \in 1..Len(tbl) : tbl[i].key = k
                  THEN DictGetItem(tbl, k).kind \in {"callable", "tuple"}
                  ELSE DictGetItem(tbl, k) = KeyErrorV(k)
    /\ pc # "idle" =>
          \E i \in 1..Len(tables[TestInfo[case.test].timed]) :
              tables[TestInfo[case.test].timed][i].key = case.library
    /\ pc # "error"
    /\ pc = "passed" =>
          \E i \in 1..Len(tables[TestInfo[case.test].timed]) :
              /\ tables[TestInfo[case.test].timed][i].key = case.library
              /\ timed[1].callable \in {tables[TestInfo[case.test].timed][i].value.func, "parse"}

\* a case of a sparse table (no "dateutil" entry) has looked up its callable
C6_Witness ==
    /\ pc = "passed"
    /\ case.test = "test_parse_utc_from_rfc_3339"
    /\ DictGetItem(tables["libraries_parse_utc_from_rfc_3339"], "dateutil") = KeyErrorV("dateutil")
    /\ Len(timed) = 1

\* the mapping from library identifier to projected value of the results
ProjectedByLibrary ==
    [i \in 1..Len(results) |->
        [key |-> results[i].key,
         value |-> Project(TestInfo[case.test].projection, results[i].value)]]

\* C7 as claimed: a failed equivalence check raises with the mapping from
\* library identifier to projected value attached.
C7_FailureCarriesProjections ==
    pc = "failed" =>
        /\ failure.message.kind = "dict"
        /\ failure.message.items = ProjectedByLibrary

\* C7 amended: a failed equivalence check raises AssertionError; what is
\* attached depends on the test: the list of raw results, without library
\* identifiers, in test_add_timedelta; the mapping from library identifier
\* to raw (unprojected) result in test_substract_timedelta; the mapping from
\* each ISO string to its length in test_convert_dt_to_isoformat_string; and
\* nothing in the other tests.
C7_FailureMessagePerTest ==
    pc = "failed" =>
        /\ failure.kind = "AssertionError"
        /\ Cardinality(CaseProjections) > 1
        /\ CASE case.test = "test_add_timedelta" ->
                  /\ failure.message.kind = "list"
                  /\ failure.message.items = [i \in 1..Len(results) |-> results[i].value]
             [] case.test = "test_substract_timedelta" ->
                  /\ failure.message.kind = "dict"
                  /\ Len(failure.message.items) = Len(results)
                  /\ \A i \in 1..Len(results) :
                        /\ failure.message.items[i].key = results[i].key
                        /\ failure.message.items[i].value = results[i].value
                        /\ failure.message.items[i].value.kind = "dt"
             [] case.test = "test_convert_dt_to_isoformat_string" ->
                  /\ failure.message.kind = "dict"
                  /\ \A i \in 1..Len(failure.message.items) :
                        /\ failure.message.items[i].value.kind = "int"
                        /\ failure.message.items[i].key.kind = "str"
                        /\ failure.message.items[i].value
                              = IntV(Len(failure.message.items[i].key.chars))
                  /\ {failure.message.items[i].key : i \in 1..Len(failure.message.items)}
                        = {results[i].value : i \in 1..Len(results)}
             [] OTHER -> failure.message = NoneV

\* the equivalence check of a test_substract_timedelta case has failed
C7_Witness ==
    /\ pc = "failed"
    /\ case.test = "test_substract_timedelta"
    /\ failure.kind = "AssertionError"
    /\ failure.message.kind = "dict"

\* C8: the benchmark fixture is called only in a case whose equivalence
\* check has passed, at most once, after every callable of the checked table
\* has been invoked; a case whose check failed never calls it and is not
\* resumed: it only ends.
C8_BenchmarkAfterCheck ==
    /\ [](/\ timed # <<>> =>
                /\ pc = "passed"
                /\ Len(timed) = 1
                /\ Len(results) = Len(tables[TestInfo[case.test].checked])
                /\ Cardinality(CaseProjections) = 1
                /\ failure = NoneV
          /\ pc = "failed" =>
                /\ timed = <<>>
                /\ failure.kind = "AssertionError"
                /\ Cardinality(CaseProjections) # 1)
    /\ [][/\ pc = "failed" => pc' \in {"failed", "idle"}
          /\ timed' # timed /\ timed' # <<>> => pc = "bench" /\ timed = <<>>
          /\ pc # "bench" /\ pc' = "bench" => AllInvoked]_vars

\* a case whose check failed, with the fixture never called
C8_Witness ==
    /\ pc = "failed"
    /\ Len(results) >= 2
    /\ Cardinality(CaseProjections) > 1
    /\ timed = <<>>

\* the argument registered or generated for table value v in the case
RegisteredArgs(v) ==
    CASE v.kind = "tuple" -> <<v.arg>>
      [] case.input # NoneV -> <<case.input>>
      [] OTHER -> <<>>

\* C9: a passing case calls the fixture exactly once, with the callable
\* registered under the case's library in the table the case checked, and with
\* the argument registered or generated for that library.
C9_TimedIsCheckedCallable ==
    pc = "passed" =>
        /\ Len(timed) = 1
        /\ LET v == DictGetItem(tables[TestInfo[case.test].checked], case.library)
           IN  /\ timed[1].callable = v.func
               /\ timed[1].args = RegisteredArgs(v)

\* the tables whose entries hold an instant captured when the table is built
CapturedTables ==
    {"libraries_shift_forward", "libraries_shift_backward", "libraries_isoweekday",
     "libraries_find_next_saturday", "libraries_convert_dt_to_isoformat_string"}

\* C10: the entries of each such table hold the same instant, and the check
\* of a case hands every callable the same instant or generated value.
C10_SharedInput ==
    /\ phase = "run" =>
          \A t \in CapturedTables :
              Cardinality({ToUtc(tables[t][i].value.arg) : i \in 1..Len(tables[t])}) = 1
    /\ AllInvoked /\ TestInfo[case.test].input # "none" =>
          Cardinality({results[i].arg : i \in 1..Len(results)}) = 1

\* C11 as claimed: once the tables are built, no step of any case changes the
\* tables, the parameter lists, the drawn durations or the state of `fake`:
\* nothing a case reads has been written by another case.
C11_NoSharedMutableState ==
    [][phase = "run" => UNCHANGED <<tables, params, globals, stream, drawn>>]_vars

\* C11 amended: once the tables are built, no step of any sequence of cases
\* changes a table, a parameter list or a drawn duration; the one thing cases
\* write is the state of the module-level generator `fake`: a case of
\* test_parse_utc_from_timestamp or test_parse_utc_from_iso_8601 draws its
\* input from it and advances it, so the input of such a case is a function of
\* the number of draws the cases before it have made.
C11_TablesReadOnly ==
    [][phase = "run" =>
          /\ UNCHANGED <<tables, params, globals, stream, display>>
          /\ phase' = "run"
          /\ IF pc = "idle" /\ pc' = "check" /\ DrawsInput(case'.test)
             THEN /\ drawn' = drawn + 1
                  /\ case'.input = FakeDraw(Inputs(case'.test), stream, drawn)
             ELSE UNCHANGED drawn]_vars

\* a case that generates its input runs after two other such cases, with an
\* input other than the one it would have drawn had it run first
C11_Witness ==
    /\ phase = "run"
    /\ pc = "passed"
    /\ DrawsInput(case.test)
    /\ drawn = Len(stream) + 2
    /\ case.input = FakeDraw(Inputs(case.test), stream, drawn - 1)
    /\ case.input # FakeDraw(Inputs(case.test), stream, Len(stream))
    /\ \A t \in TableNames : tables[t] # <<>>

\* the results the callables of libraries_shift_backward give on their own
\* registered instants
BackwardResults ==
    [i \in 1..Len(tables["libraries_shift_backward"]) |->
        LET e == tables["libraries_shift_backward"][i]
        IN  [key |-> e.key, arg |-> e.value.arg,
             value |-> Call(e.value.func, e.value.arg, globals, clock)]]

\* C12: in a case of test_substract_timedelta the results checked are those
\* of the callables of libraries_shift_backward, and the case goes on to the
\* benchmark only when the days of those results agree.
C12_ChecksBackwardTable ==
    case.test = "test_substract_timedelta" =>
        /\ AllInvoked => results = BackwardResults
        /\ pc \in {"bench", "passed"} => Cardinality(Projections("day", BackwardResults)) = 1

\* the result the "python" entry gave in the running case, if invoked
PythonResults == {i \in 1..Len(results) : results[i].key = "python"}

\* C13: for every weekday w in 0..6 the offset (7 + SATURDAY - w) % 7 lies in
\* 0..6 and leads to weekday SATURDAY; the "python" entry of
\* libraries_find_next_saturday returns its input moved forward by that many
\* whole days, a Saturday at the input's time of day, and the input itself
\* when the input is a Saturday.
C13_PythonNextSaturday ==
    /\ \A w \in 0..6 :
          /\ (7 + SATURDAY - w) % 7 \in 0..6
          /\ (w + ((7 + SATURDAY - w) % 7)) % 7 = SATURDAY
          /\ w = SATURDAY => (7 + SATURDAY - w) % 7 = 0
    /\ case.test = "test_find_next_saturday" =>
          \A i \in PythonResults :
              LET dt == results[i].arg
                  r == results[i].value
              IN  /\ r.kind = "dt"
                  /\ r.d - dt.d \in 0..6
                  /\ r.d - dt.d = (7 + SATURDAY - Weekday(dt)) % 7
                  /\ Weekday(r) = SATURDAY
                  /\ <<r.s, r.u, r.off>> = <<dt.s, dt.u, dt.off>>
                  /\ \A d \in dt.d..(r.d - 1) : (d + 3) % 7 # SATURDAY
                  /\ Weekday(dt) = SATURDAY => r = dt

\* the "python" entry has been invoked on a Saturday and returned that day,
\* where pendulum's entry returned the Saturday of the following week
C13_Witness ==
    /\ case.test = "test_find_next_saturday"
    /\ pc = "failed"
    /\ \E i \in PythonResults :
          /\ Weekday(results[i].arg) = SATURDAY
          /\ results[i].value = results[i].arg
    /\ \E i \in 1..Len(results) :
          /\ results[i].key = "pendulum"
          /\ results[i].value.d = results[i].arg.d + 7

====
